---------------------------- MODULE Spec2Model ----------------------------
(***************************************************************************)
(* Model of pyknow.factlist.FactList (src/pyknow/factlist.py): the fact    *)
(* list of a knowledge engine.  One action per public operation: declare,  *)
(* retract, the changes property, and the assignment of the public         *)
(* attribute `duplication`.                                                *)
(***************************************************************************)
EXTENDS Integers, Sequences, FiniteSets, TLC

(***************************************************************************)
(* Bounds of the model.                                                    *)
(***************************************************************************)
\* declare stores no fact any more once last_index has reached MaxIndex
MaxIndex == 2

(***************************************************************************)
(* Values, facts and the objects the caller holds.                         *)
(*                                                                         *)
(* A value is an int or a str; a fact is a mapping (here: the sequence of  *)
(* its (key, value) items, in the dict's own order) with a class.  The     *)
(* caller holds the objects Objs; two objects with equal content are still *)
(* two objects.  The slot __factid__ of each object is state (factid).     *)
(***************************************************************************)
\* the value of an unset __factid__, and of a call that returns nothing
None == -1

IntV(n) == [t |-> "int", n |-> n, s |-> ""]
StrV(s) == [t |-> "str", n |-> 0, s |-> s]
ClassV(c) == [t |-> "type", n |-> 0, s |-> c]

Obj(isFact, valid, cls, items) ==
    [isFact |-> isFact, valid |-> valid, cls |-> cls, items |-> items]

\* The objects of the caller in Spec: two facts A(content='x'), the facts
\* A(level=1, id=1) and B(id=1, level=1, content='x'), a fact that does not
\* validate, and a str.
Objects ==
    << Obj(TRUE, TRUE, "A", << <<"content", StrV("x")>> >>),
       Obj(TRUE, TRUE, "A", << <<"content", StrV("x")>> >>),
       Obj(TRUE, TRUE, "A", << <<"level", IntV(1)>>, <<"id", IntV(1)>> >>),
       Obj(TRUE, TRUE, "B", << <<"id", IntV(1)>>, <<"level", IntV(1)>>,
                                <<"content", StrV("x")>> >>),
       Obj(TRUE, FALSE, "A", << <<"content", StrV("bad")>> >>),
       Obj(FALSE, FALSE, "str", << >>) >>

\* The objects of the caller in SpecKeys, all without level and id: the facts
\* A(x=1, y=2), A(y=2, x=1), A(x=1, y=2, __bind__='f') and B(x=1, y=2).
KeyObjects ==
    << Obj(TRUE, TRUE, "A", << <<"x", IntV(1)>>, <<"y", IntV(2)>> >>),
       Obj(TRUE, TRUE, "A", << <<"y", IntV(2)>>, <<"x", IntV(1)>> >>),
       Obj(TRUE, TRUE, "A", << <<"x", IntV(1)>>, <<"y", IntV(2)>>,
                                <<"__bind__", StrV("f")>> >>),
       Obj(TRUE, TRUE, "B", << <<"x", IntV(1)>>, <<"y", IntV(2)>> >>) >>

\* The objects of the caller in SpecVersions, all with level and id: the facts
\* A(level='1_1', id=1), A(level='1', id='1_1'), A(level=1, id='1_1') and
\* A(level=1, id=2).
VersionObjects ==
    << Obj(TRUE, TRUE, "A", << <<"level", StrV("1_1")>>, <<"id", IntV(1)>> >>),
       Obj(TRUE, TRUE, "A", << <<"level", StrV("1")>>, <<"id", StrV("1_1")>> >>),
       Obj(TRUE, TRUE, "A", << <<"level", IntV(1)>>, <<"id", StrV("1_1")>> >>),
       Obj(TRUE, TRUE, "A", << <<"level", IntV(1)>>, <<"id", IntV(2)>> >>) >>

VARIABLE caller          \* which caller uses the fact list: it names the objects held

\* the objects of the caller, by object identity
heap ==
    CASE caller = "engine" -> Objects
      [] caller = "keys" -> KeyObjects
      [] caller = "versions" -> VersionObjects

Objs == DOMAIN heap

\* isinstance(fact, Fact)
IsFact(fact) == heap[fact].isFact

\* fact.validate() returns (TRUE) or raises (FALSE)
Validate(fact) == heap[fact].valid

\* fact.keys()
Keys(fact) == { heap[fact].items[j][1] : j \in DOMAIN heap[fact].items }

\* fact[k], for k in fact.keys()
Get(fact, k) ==
    LET j == CHOOSE j \in DOMAIN heap[fact].items : heap[fact].items[j][1] = k
    IN heap[fact].items[j][2]

\* Fact.is_special(k): the metadata keys, __name__
is_special(k) == k \in {"__bind__", "__factid__"}

\* str() of a value, as an f-string formats it
Digit(d) ==
    CASE d = 0 -> "0" [] d = 1 -> "1" [] d = 2 -> "2" [] d = 3 -> "3"
      [] d = 4 -> "4" [] d = 5 -> "5" [] d = 6 -> "6" [] d = 7 -> "7"
      [] d = 8 -> "8" [] d = 9 -> "9"

RECURSIVE NatStr(_)
NatStr(n) == IF n < 10 THEN Digit(n) ELSE NatStr(n \div 10) \o Digit(n % 10)

Format(v) ==
    IF v.t = "int" THEN (IF v.n < 0 THEN "-" \o NatStr(-v.n) ELSE NatStr(v.n))
    ELSE v.s

\* 'level' in fact.keys() and 'id' in fact.keys()
HasLevelAndId(fact) == "level" \in Keys(fact) /\ "id" \in Keys(fact)

(***************************************************************************)
(* FactList._get_fact_id: a str for a fact with level and id, a frozenset  *)
(* of the class and the non-special items otherwise.  A str never equals a *)
(* frozenset: the tag keeps the two kinds apart.                           *)
(***************************************************************************)
StrKey(s) == [tag |-> "str", s |-> s, fs |-> {}]
SetKey(fs) == [tag |-> "frozenset", s |-> "", fs |-> fs]

_get_fact_id(fact) ==
    IF HasLevelAndId(fact)
    THEN StrKey(Format(Get(fact, "level")) \o "_" \o Format(Get(fact, "id")))
    ELSE SetKey({ <<"class", ClassV(heap[fact].cls)>> }
                \cup { <<k, Get(fact, k)>> : k \in { k \in Keys(fact) : ~is_special(k) } })

(***************************************************************************)
(* The OrderedDict that FactList is: the sequence of its (index, fact)     *)
(* items in insertion order.                                               *)
(***************************************************************************)
\* idx in self
Contains(od, idx) == \E j \in DOMAIN od : od[j][1] = idx

\* self[idx], for idx in self
Lookup(od, idx) == od[CHOOSE j \in DOMAIN od : od[j][1] = idx][2]

\* self[idx] = fact: a new key goes last, an old key keeps its place
SetItem(od, idx, fact) ==
    IF Contains(od, idx)
    THEN [j \in DOMAIN od |-> IF od[j][1] = idx THEN <<idx, fact>> ELSE od[j]]
    ELSE Append(od, <<idx, fact>>)

\* del self[idx], for idx in self
DelItem(od, idx) == SelectSeq(od, LAMBDA it : it[1] # idx)

\* self.values()
Values(od) == [j \in DOMAIN od |-> od[j][2]]

\* self.keys(), as a set
Indices(od) == { od[j][1] : j \in DOMAIN od }

(***************************************************************************)
(* collections.Counter and dict, as functions on the keys present.         *)
(***************************************************************************)
\* counter[key], 0 for a missing key
Count(counter, key) == IF key \in DOMAIN counter THEN counter[key] ELSE 0

\* d[key] = value
Put(d, key, value) == [k \in DOMAIN d \cup {key} |-> IF k = key THEN value ELSE d[k]]

\* del d[key] / d.pop(key), for key in d
Del(d, key) == [k \in DOMAIN d \ {key} |-> d[k]]

(***************************************************************************)
(* State.                                                                  *)
(***************************************************************************)
VARIABLES
    odict,               \* the FactList itself: (index, fact) items in order
    last_index,          \* self.last_index
    reference_counter,   \* self.reference_counter
    added,               \* self.added
    removed,             \* self.removed
    duplication,         \* self.duplication
    fact_id_2_idx_map,   \* self.fact_id_2_idx_map
    factid,              \* fact.__factid__ of every object of the caller
    result,              \* the last call: operation, argument, outcome
    given,               \* history: the indices stored so far
    left,                \* history: the facts that left the store since the last read of changes
    seen,                \* history: the items that were live at the last read of changes
    ever_dup,            \* history: duplication has been TRUE at some time
    reowned              \* history: declare was given a fact the store held

\* caller never changes: a Fact's items are fixed before it is declared
store == <<odict, last_index, reference_counter, added, removed, fact_id_2_idx_map>>
hist == <<given, left, seen, ever_dup, reowned>>
vars == <<caller, odict, last_index, reference_counter, added, removed, duplication,
          fact_id_2_idx_map, factid, result, given, left, seen, ever_dup, reowned>>

\* what a call did: op was given arg (by "index" or by "fact"), ended with out
\* ("return" or the exception raised), returned val and called the watcher
\* notified times; live and gone are the pair the changes property returns;
\* watched is <<the store as it was when watchers.FACTS.info was called>>
Call(op, by, arg, out, val, notified) ==
    [op |-> op, by |-> by, arg |-> arg, out |-> out, val |-> val,
     notified |-> notified, live |-> <<>>, gone |-> <<>>, watched |-> <<>>]

\* the call of watchers.FACTS.info, which finds the store as at_call
Watched(call, at_call) == [call EXCEPT !.watched = <<at_call>>]

\* FactList.__init__, for the caller who
NewFactList(who) ==
    /\ caller = who
    /\ odict = <<>>
    /\ last_index = 0
    /\ reference_counter = <<>>
    /\ added = <<>>
    /\ removed = <<>>
    /\ duplication = FALSE
    /\ fact_id_2_idx_map = <<>>
    /\ factid = [o \in Objs |-> None]
    /\ result = Call("init", "", None, "return", None, 0)
    /\ given = {}
    /\ left = <<>>
    /\ seen = {}
    /\ ever_dup = FALSE
    /\ reowned = FALSE

Init == NewFactList("engine")

\* the items that are in the store before the step and not after it, in order
Departed == SelectSeq(odict, LAMBDA it : ~Contains(odict', it[1]))

\* the history variables, which no code reads, follow the step
History ==
    /\ caller' = caller
    /\ given' = given \cup (Indices(odict') \ Indices(odict))
    /\ left' = IF result'.op = "changes" THEN <<>> ELSE left \o Values(Departed)
    /\ seen' = IF result'.op = "changes" THEN { odict[j] : j \in DOMAIN odict } ELSE seen
    /\ ever_dup' = (ever_dup \/ duplication')
    /\ reowned' = (reowned \/ (result'.op = "declare"
                               /\ \E j \in DOMAIN odict : odict[j][2] = result'.arg))

(***************************************************************************)
(* declare                                                                 *)
(***************************************************************************)
\* a call that raises before it has changed anything
Raise(op, by, arg, exception) ==
    /\ result' = Call(op, by, arg, exception, None, 0)
    /\ UNCHANGED <<store, factid>>

\* DeclareAccept as it would be with idx = len(self) for idx = self.last_index
DeclareAccept_LenIndex(fact, fact_id) ==
    LET idx == Len(odict) IN
    /\ last_index < MaxIndex
    /\ factid' = [factid EXCEPT ![fact] = idx]
    /\ fact_id_2_idx_map' = Put(fact_id_2_idx_map, fact_id, idx)
    /\ odict' = SetItem(odict, idx, fact)
    /\ last_index' = last_index + 1
    /\ added' = Append(added, fact)
    /\ reference_counter' = Put(reference_counter, fact_id,
                                Count(reference_counter, fact_id) + 1)
    /\ removed' = removed
    \* watchers.FACTS.info(" ==> %s: %r", fact, fact) is the last statement
    /\ result' = Watched(Call("declare", "fact", fact, "return", fact, 1), store')

\* DeclareAccept as it would be with self.reference_counter[fact_id] = 1
DeclareAccept_CountOne(fact, fact_id) ==
    LET idx == last_index IN
    /\ last_index < MaxIndex
    /\ factid' = [factid EXCEPT ![fact] = idx]
    /\ fact_id_2_idx_map' = Put(fact_id_2_idx_map, fact_id, idx)
    /\ odict' = SetItem(odict, idx, fact)
    /\ last_index' = last_index + 1
    /\ added' = Append(added, fact)
    /\ reference_counter' = Put(reference_counter, fact_id, 1)
    /\ removed' = removed
    /\ result' = Watched(Call("declare", "fact", fact, "return", fact, 1), store')

\* lines 89-104: the fact is stored under a new index
DeclareAccept(fact, fact_id) ==
    LET idx == last_index IN
    /\ last_index < MaxIndex
    /\ factid' = [factid EXCEPT ![fact] = idx]
    /\ fact_id_2_idx_map' = Put(fact_id_2_idx_map, fact_id, idx)
    /\ odict' = SetItem(odict, idx, fact)
    /\ last_index' = last_index + 1
    /\ added' = Append(added, fact)
    /\ reference_counter' = Put(reference_counter, fact_id,
                                Count(reference_counter, fact_id) + 1)
    /\ removed' = removed
    \* watchers.FACTS.info(" ==> %s: %r", fact, fact) is the last statement
    /\ result' = Watched(Call("declare", "fact", fact, "return", fact, 1), store')

\* DeclareReplace as it would be without self.removed.append(old_fact)
DeclareReplace_NoJournal(fact, fact_id) ==
    LET old_idx == fact_id_2_idx_map[fact_id]
        idx == last_index
    IN
    /\ last_index < MaxIndex
    /\ removed' = removed
    /\ odict' = SetItem(DelItem(odict, old_idx), idx, fact)
    /\ fact_id_2_idx_map' = Put(Del(fact_id_2_idx_map, fact_id), fact_id, idx)
    /\ factid' = [factid EXCEPT ![fact] = idx]
    /\ last_index' = last_index + 1
    /\ added' = Append(added, fact)
    /\ reference_counter' = reference_counter
    \* watchers.FACTS.info(" ==> %s: %r", fact, fact) is the last statement
    /\ result' = Watched(Call("declare", "fact", fact, "return", fact, 1), store')

\* DeclareReplace as it would be without del self[self.fact_id_2_idx_map[fact_id]]
DeclareReplace_KeepOld(fact, fact_id) ==
    LET old_idx == fact_id_2_idx_map[fact_id]
        old_fact == Lookup(odict, old_idx)
        idx == last_index
    IN
    /\ last_index < MaxIndex
    /\ removed' = Append(removed, old_fact)
    /\ odict' = SetItem(odict, idx, fact)
    /\ fact_id_2_idx_map' = Put(Del(fact_id_2_idx_map, fact_id), fact_id, idx)
    /\ factid' = [factid EXCEPT ![fact] = idx]
    /\ last_index' = last_index + 1
    /\ added' = Append(added, fact)
    /\ reference_counter' = reference_counter
    \* watchers.FACTS.info(" ==> %s: %r", fact, fact) is the last statement
    /\ result' = Watched(Call("declare", "fact", fact, "return", fact, 1), store')

\* DeclareReplace as it would be without fact.__factid__ = idx
DeclareReplace_NoFactId(fact, fact_id) ==
    LET old_idx == fact_id_2_idx_map[fact_id]
        old_fact == Lookup(odict, old_idx)
        idx == last_index
    IN
    /\ last_index < MaxIndex
    /\ removed' = Append(removed, old_fact)
    /\ odict' = SetItem(DelItem(odict, old_idx), idx, fact)
    /\ fact_id_2_idx_map' = Put(Del(fact_id_2_idx_map, fact_id), fact_id, idx)
    /\ factid' = factid
    /\ last_index' = last_index + 1
    /\ added' = Append(added, fact)
    /\ reference_counter' = reference_counter
    \* watchers.FACTS.info(" ==> %s: %r", fact, fact) is the last statement
    /\ result' = Watched(Call("declare", "fact", fact, "return", fact, 1), store')

\* DeclareReplace as it would be with self.reference_counter[fact_id] += 1,
\* as in the first branch
DeclareReplace_Counts(fact, fact_id) ==
    LET old_idx == fact_id_2_idx_map[fact_id]
        old_fact == Lookup(odict, old_idx)
        idx == last_index
    IN
    /\ last_index < MaxIndex
    /\ removed' = Append(removed, old_fact)
    /\ odict' = SetItem(DelItem(odict, old_idx), idx, fact)
    /\ fact_id_2_idx_map' = Put(Del(fact_id_2_idx_map, fact_id), fact_id, idx)
    /\ factid' = [factid EXCEPT ![fact] = idx]
    /\ last_index' = last_index + 1
    /\ added' = Append(added, fact)
    /\ reference_counter' = Put(reference_counter, fact_id,
                                Count(reference_counter, fact_id) + 1)
    \* watchers.FACTS.info(" ==> %s: %r", fact, fact) is the last statement
    /\ result' = Watched(Call("declare", "fact", fact, "return", fact, 1), store')

\* lines 108-125: the fact takes the place of the fact the map names
DeclareReplace(fact, fact_id) ==
    LET old_idx == fact_id_2_idx_map[fact_id]
        old_fact == Lookup(odict, old_idx)
        idx == last_index
    IN
    /\ last_index < MaxIndex
    /\ removed' = Append(removed, old_fact)
    /\ odict' = SetItem(DelItem(odict, old_idx), idx, fact)
    /\ fact_id_2_idx_map' = Put(Del(fact_id_2_idx_map, fact_id), fact_id, idx)
    /\ factid' = [factid EXCEPT ![fact] = idx]
    /\ last_index' = last_index + 1
    /\ added' = Append(added, fact)
    /\ reference_counter' = reference_counter
    \* watchers.FACTS.info(" ==> %s: %r", fact, fact) is the last statement
    /\ result' = Watched(Call("declare", "fact", fact, "return", fact, 1), store')

\* lines 126-129: return None
DeclareReject(fact) ==
    /\ result' = Call("declare", "fact", fact, "return", None, 0)
    /\ UNCHANGED <<store, factid>>

\* FactList.declare(fact)
Declare(fact) ==
    /\ duplication' = duplication
    /\ IF ~IsFact(fact) THEN Raise("declare", "fact", fact, "ValueError")
       ELSE IF ~Validate(fact) THEN Raise("declare", "fact", fact, "ValidationError")
       ELSE LET fact_id == _get_fact_id(fact) IN
            IF duplication \/ fact_id \notin DOMAIN reference_counter
            THEN DeclareAccept(fact, fact_id)
            \* line 106: self[self.fact_id_2_idx_map[fact_id]]
            ELSE IF fact_id \notin DOMAIN fact_id_2_idx_map
                    \/ ~Contains(odict, fact_id_2_idx_map[fact_id])
            THEN Raise("declare", "fact", fact, "KeyError")
            ELSE IF HasLevelAndId(Lookup(odict, fact_id_2_idx_map[fact_id]))
            THEN DeclareReplace(fact, fact_id)
            ELSE DeclareReject(fact)
    /\ History

(***************************************************************************)
(* retract                                                                 *)
(***************************************************************************)
\* RetractLive as it would be if it deleted the map entry only when the
\* counter of the key has reached 0
RetractLive_KeepMapWhileCounted(by, arg, idx) ==
    LET fact == Lookup(odict, idx)
        fact_id == _get_fact_id(fact)
        count == Count(reference_counter, fact_id) - 1
        at_160 == <<odict, last_index, reference_counter', added, removed,
                    fact_id_2_idx_map>>
    IN
    /\ reference_counter' = IF count = 0 THEN Del(reference_counter, fact_id)
                            ELSE Put(reference_counter, fact_id, count)
    /\ removed' = Append(removed, fact)
    /\ odict' = DelItem(odict, idx)
    /\ UNCHANGED <<last_index, added, factid>>
    /\ fact_id_2_idx_map' = IF count = 0 /\ fact_id \in DOMAIN fact_id_2_idx_map
                            THEN Del(fact_id_2_idx_map, fact_id)
                            ELSE fact_id_2_idx_map
    /\ result' = Watched(Call("retract", by, arg, "return", idx, 1), at_160)

\* lines 152-166: the fact at idx is taken out of the store
RetractLive(by, arg, idx) ==
    LET fact == Lookup(odict, idx)
        fact_id == _get_fact_id(fact)
        count == Count(reference_counter, fact_id) - 1
        \* line 160, watchers.FACTS.info(" <== %s: %r", fact, fact), comes
        \* after lines 156-158 and before lines 161-164
        at_160 == <<odict, last_index, reference_counter', added, removed,
                    fact_id_2_idx_map>>
    IN
    /\ reference_counter' = IF count = 0 THEN Del(reference_counter, fact_id)
                            ELSE Put(reference_counter, fact_id, count)
    /\ removed' = Append(removed, fact)
    /\ odict' = DelItem(odict, idx)
    /\ UNCHANGED <<last_index, added, factid>>
    \* line 164: del self.fact_id_2_idx_map[fact_id]
    /\ IF fact_id \in DOMAIN fact_id_2_idx_map
       THEN /\ fact_id_2_idx_map' = Del(fact_id_2_idx_map, fact_id)
            /\ result' = Watched(Call("retract", by, arg, "return", idx, 1), at_160)
       ELSE /\ fact_id_2_idx_map' = fact_id_2_idx_map
            /\ result' = Watched(Call("retract", by, arg, "KeyError", None, 1), at_160)

\* RetractIdx as it would be if a missing index were passed over in silence
RetractIdx_Silent(by, arg, idx) ==
    IF ~Contains(odict, idx)
    THEN /\ result' = Call("retract", by, arg, "return", idx, 0)
         /\ UNCHANGED <<store, factid>>
    ELSE RetractLive(by, arg, idx)

\* lines 149-166
RetractIdx(by, arg, idx) ==
    IF ~Contains(odict, idx) THEN Raise("retract", by, arg, "IndexError")
    ELSE RetractLive(by, arg, idx)

\* FactList.retract(idx_or_fact), given an int
RetractByIndex(idx) ==
    /\ duplication' = duplication
    /\ RetractIdx("index", idx, idx)
    /\ History

\* FactList.retract(idx_or_fact), given anything else: a Fact has the slot
\* __factid__ (None until it is declared), another object has not
RetractByFact(fact) ==
    /\ duplication' = duplication
    /\ IF ~IsFact(fact) THEN Raise("retract", "fact", fact, "AttributeError")
       ELSE RetractIdx("fact", fact, factid[fact])
    /\ History

(***************************************************************************)
(* changes                                                                 *)
(***************************************************************************)
\* Changes as it would be without self.removed = list() in the finally block
Changes_KeepRemoved ==
    /\ result' = [Call("changes", "", None, "return", None, 0)
                    EXCEPT !.live = Values(odict), !.gone = removed]
    /\ added' = <<>>
    /\ removed' = removed
    /\ UNCHANGED <<odict, last_index, reference_counter, fact_id_2_idx_map,
                   factid, duplication>>
    /\ History

\* FactList.changes: return self.values(), self.removed; then both journals
\* are new lists
Changes ==
    /\ result' = [Call("changes", "", None, "return", None, 0)
                    EXCEPT !.live = Values(odict), !.gone = removed]
    /\ added' = <<>>
    /\ removed' = <<>>
    /\ UNCHANGED <<odict, last_index, reference_counter, fact_id_2_idx_map,
                   factid, duplication>>
    /\ History

(***************************************************************************)
(* get_fact_from_partial                                                   *)
(***************************************************************************)
\* lines 56-63: what get_fact_from_partial returns for a Fact
FactFromPartial(fact) ==
    IF HasLevelAndId(fact)
    THEN LET key == StrKey(Format(Get(fact, "level")) \o "_" \o Format(Get(fact, "id")))
         IN IF key \in DOMAIN fact_id_2_idx_map
               /\ Contains(odict, fact_id_2_idx_map[key])
            THEN Lookup(odict, fact_id_2_idx_map[key])
            ELSE None
    ELSE None

\* FactList.get_fact_from_partial(fact); an object that is no Fact has no keys()
GetFactFromPartial(fact) ==
    /\ duplication' = duplication
    /\ IF ~IsFact(fact)
       THEN Raise("get_fact_from_partial", "fact", fact, "AttributeError")
       ELSE /\ result' = Call("get_fact_from_partial", "fact", fact, "return",
                              FactFromPartial(fact), 0)
            /\ UNCHANGED <<store, factid>>
    /\ History

(***************************************************************************)
(* duplication is a public attribute that the caller assigns               *)
(***************************************************************************)
SetDuplication(flag) ==
    /\ duplication # flag
    /\ duplication' = flag
    /\ result' = Call("duplication", "", None, "return", None, 0)
    /\ UNCHANGED <<store, factid>>
    /\ History

Next ==
    \/ \E fact \in Objs : Declare(fact)
    \/ \E idx \in 0..MaxIndex : RetractByIndex(idx)
    \/ \E fact \in Objs : RetractByFact(fact)
    \/ Changes
    \/ \E flag \in BOOLEAN : SetDuplication(flag)

Spec == Init /\ [][Next]_vars

\* the same, with the calls of get_fact_from_partial, which only reads
NextLookup ==
    \/ Next
    \/ \E fact \in Objs : GetFactFromPartial(fact)

SpecLookup == Init /\ [][NextLookup]_vars

\* the same operations, for the caller whose facts have no level and id
InitKeys == NewFactList("keys")

SpecKeys == InitKeys /\ [][Next]_vars

\* the same operations, for the caller whose facts all have level and id
InitVersions == NewFactList("versions")

SpecVersions == InitVersions /\ [][Next]_vars

(***************************************************************************)
(* Properties.                                                             *)
(***************************************************************************)
\* the identity keys of the facts in the store
LiveKeys == { _get_fact_id(odict[j][2]) : j \in DOMAIN odict }

\* the step is a call of op
Called(op) == result'.op = op

\* the step is a declare that stored its fact (accepted it, or replaced with it)
Stored == Called("declare") /\ result'.out = "return" /\ result'.val # None

\* up to and with the step, no declare was given a fact that was in the store
\* (declare takes "a Fact not yet owned by any store")
InContract == ~reowned'

\* the call of the step raised
Failed == result'.op \in {"declare", "retract"} /\ result'.out # "return"

\* C1: the index given to each accepted or replacing fact is greater than
\* every index given before, so no index is given twice, also after the fact
\* that held it was retracted or replaced; last_index never decreases.
C1_IndexNeverReused ==
    [][ /\ last_index' >= last_index
        /\ Stored =>
             LET idx == factid'[result'.val] IN
             /\ idx = last_index
             /\ idx < last_index'
             /\ Contains(odict', idx) /\ Lookup(odict', idx) = result'.val
             /\ \A i \in given : i < idx ]_vars

\* a fact was stored under index 1 after index 0 had been given and vacated
C1_Witness ==
    /\ result.op = "declare" /\ result.val # None
    /\ factid[result.val] = 1
    /\ 0 \in given /\ ~Contains(odict, 0)

\* C2: with duplication off, declare of a valid fact without level and id,
\* while a live fact has its identity key, returns None and changes nothing
\* (stated for the callers that keep declare's contract).
C2_DuplicateRejected ==
    [][ \A fact \in Objs :
          ( /\ Called("declare") /\ result'.arg = fact
            /\ InContract
            /\ ~duplication
            /\ IsFact(fact) /\ Validate(fact) /\ ~HasLevelAndId(fact)
            /\ _get_fact_id(fact) \in LiveKeys )
          => ( /\ result'.out = "return" /\ result'.val = None
               /\ result'.notified = 0
               /\ UNCHANGED <<store, factid>> ) ]_vars

\* the facts f and g both have level and id, with equal values
SameLevelAndId(f, g) ==
    /\ HasLevelAndId(f) /\ HasLevelAndId(g)
    /\ Get(f, "level") = Get(g, "level") /\ Get(f, "id") = Get(g, "id")

\* C3: with duplication off, declare of a valid fact with level and id, while
\* a live fact has the same level and id, replaces that fact: it leaves the
\* store and is appended to removed, the new fact is stored under the index
\* last_index had, and one live fact has the key afterwards (stated for the
\* callers that keep declare's contract).
C3_VersionReplaces ==
    [][ \A fact \in Objs :
          ( /\ Called("declare") /\ result'.arg = fact
            /\ InContract
            /\ ~duplication
            /\ IsFact(fact) /\ Validate(fact)
            /\ \E j \in DOMAIN odict : SameLevelAndId(odict[j][2], fact) )
          => ( /\ result'.out = "return" /\ result'.val = fact
               /\ \E j \in DOMAIN odict :
                     /\ SameLevelAndId(odict[j][2], fact)
                     /\ ~Contains(odict', odict[j][1])
                     /\ removed' = Append(removed, odict[j][2])
               /\ Contains(odict', last_index)
               /\ Lookup(odict', last_index) = fact
               /\ Cardinality({ j \in DOMAIN odict' :
                     _get_fact_id(odict'[j][2]) = _get_fact_id(fact) }) = 1 ) ]_vars

\* the index that retract looks up: its argument, or the __factid__ of it
Target(call) == IF call.by = "index" THEN call.arg ELSE factid[call.arg]

\* C4: retract of an index that is not live, or of a fact whose __factid__ is
\* not a live index, raises IndexError and changes nothing.
C4_RetractNotFound ==
    [][ ( /\ Called("retract")
          /\ result'.by = "fact" => IsFact(result'.arg)
          /\ ~Contains(odict, Target(result')) )
        => ( /\ result'.out = "IndexError"
             /\ UNCHANGED <<store, factid>> ) ]_vars

\* retract raised IndexError for an index that had been given and vacated
C4_Witness ==
    /\ result.op = "retract" /\ result.out = "IndexError"
    /\ result.by = "index" /\ result.arg \in given
    /\ ~Contains(odict, result.arg)

\* C5: a declare or retract that raises leaves the store, last_index, the
\* counter, the map and both journals as they were (stated for the callers
\* that keep declare's contract).
C5_AtomicFailure ==
    [][ (Failed /\ InContract) => UNCHANGED <<store, factid>> ]_vars

\* the numbers of S in ascending order
RECURSIVE Ascending(_)
Ascending(S) ==
    IF S = {} THEN <<>>
    ELSE LET m == CHOOSE m \in S : \A n \in S : m <= n
         IN <<m>> \o Ascending(S \ {m})

\* the live facts in ascending order of their indices
LiveByIndex ==
    LET idxs == Ascending(Indices(odict))
    IN [k \in DOMAIN idxs |-> Lookup(odict, idxs[k])]

C7_RemovedIsWhatLeft ==
    [][ Called("changes") =>
          /\ result'.gone = left
          /\ \A it \in seen :
               ~Contains(odict, it[1]) =>
                  \E k \in DOMAIN result'.gone : result'.gone[k] = it[2] ]_vars

\* changes has returned, in this order, a fact that a declare replaced and the
\* fact that replaced it, retracted later
C7_Witness ==
    /\ result.op = "changes"
    /\ ~ever_dup
    /\ Len(result.gone) = 2
    /\ SameLevelAndId(result.gone[1], result.gone[2])
    /\ odict = <<>>

\* C8: while duplication has never been on, no two live facts have the same
\* identity key.
C8_OneLiveFactPerKey ==
    ~ever_dup =>
        \A j, k \in DOMAIN odict :
            j # k => _get_fact_id(odict[j][2]) # _get_fact_id(odict[k][2])

\* with duplication never on, a declare has replaced a fact that has its key
C8_Witness ==
    /\ ~ever_dup
    /\ result.op = "declare" /\ result.val # None
    /\ removed # <<>>
    /\ SameLevelAndId(removed[Len(removed)], result.val)
    /\ Contains(odict, factid[result.val])

\* C9: the map has an entry for a key exactly if the counter of the key is
\* greater than 0 (stated for the callers that keep declare's contract).
C9_MapIffCounted ==
    ~reowned =>
        DOMAIN fact_id_2_idx_map
          = { key \in DOMAIN reference_counter : reference_counter[key] > 0 }

\* no index is in the store twice, and each fact's __factid__ is its index
FactIdIsIndex ==
    /\ \A j, k \in DOMAIN odict : odict[j][1] = odict[k][1] => j = k
    /\ \A j \in DOMAIN odict : factid[odict[j][2]] = odict[j][1]

\* C10: for the callers that keep declare's contract, an index of the store
\* maps to one fact, and the __factid__ of that fact is the index; so retract
\* of a live fact takes out the item of that fact and no other.
C10_FactIdIsIndex ==
    [][ InContract =>
          /\ FactIdIsIndex'
          /\ ( /\ Called("retract") /\ result'.by = "fact"
               /\ \E j \in DOMAIN odict : odict[j][2] = result'.arg )
             => odict' = SelectSeq(odict, LAMBDA it : it[2] # result'.arg) ]_vars

\* retract(fact) has taken the item of its fact out and left another fact in
C10_Witness ==
    /\ ~reowned
    /\ result.op = "retract" /\ result.by = "fact" /\ result.out = "return"
    /\ result.val = factid[result.arg]
    /\ Len(odict) = 1
    /\ removed = <<result.arg>>

\* the elements of the sequence q
Range(q) == { q[k] : k \in DOMAIN q }

\* C11: the watcher is called once by a declare that stores its fact and once
\* by a retract that returns, and not at all by a declare that returns None
\* or by a call that raises (stated for the callers that keep declare's
\* contract).
C11_NotifiedOncePerChange ==
    [][ (InContract /\ result'.op \in {"declare", "retract"}) =>
          /\ Stored => result'.notified = 1
          /\ (Called("retract") /\ result'.out = "return") => result'.notified = 1
          /\ (Called("declare") /\ result'.out = "return" /\ result'.val = None)
               => result'.notified = 0
          /\ Failed => result'.notified = 0 ]_vars

\* C12: changes returns the facts added since the last read: the part of its
\* result that is not the removed list holds the facts that declare has
\* stored since the read before, and no other.
C12_ChangesReturnsAdded ==
    [][ Called("changes") => Range(result'.live) = Range(added) ]_vars

\* C13: the counter of a key is the number of live facts with that key, and a
\* key without a live fact has no counter.
C13_CounterCountsLiveFacts ==
    /\ DOMAIN reference_counter = LiveKeys
    /\ \A key \in DOMAIN reference_counter :
         reference_counter[key]
           = Cardinality({ j \in DOMAIN odict : _get_fact_id(odict[j][2]) = key })

\* a declare has replaced a fact of its key, and the key still counts 1
C13_Witness ==
    /\ result.op = "declare" /\ result.val # None
    /\ removed # <<>>
    /\ SameLevelAndId(removed[Len(removed)], result.val)
    /\ Count(reference_counter, _get_fact_id(result.val)) = 1
    /\ Len(odict) = 1

\* C14: a call whose preconditions hold does not raise: retract of a live
\* index (or of a fact whose __factid__ is one) returns the index, takes that
\* item out and appends its fact to removed; declare of a valid Fact returns
\* (stated for the callers that keep declare's contract).
C14_NoFailureInPrecondition ==
    [][ InContract =>
          /\ ( /\ Called("retract")
               /\ result'.by = "fact" => IsFact(result'.arg)
               /\ Contains(odict, Target(result')) )
             => ( /\ result'.out = "return"
                  /\ result'.val = Target(result')
                  /\ odict' = DelItem(odict, Target(result'))
                  /\ removed' = Append(removed, Lookup(odict, Target(result'))) )
          /\ ( /\ Called("declare")
               /\ IsFact(result'.arg) /\ Validate(result'.arg) )
             => result'.out = "return" ]_vars

\* C15: when declare or retract calls the watcher, the store is already as
\* the call leaves it.
C15_CommittedWhenNotified ==
    [][ (result'.op \in {"declare", "retract"} /\ result'.notified > 0)
          => result'.watched = <<store'>> ]_vars

\* C16: an entry of the map names a live index, and the fact at that index
\* has the entry's key.
C16_MapNamesLiveFact ==
    \A key \in DOMAIN fact_id_2_idx_map :
        /\ Contains(odict, fact_id_2_idx_map[key])
        /\ _get_fact_id(Lookup(odict, fact_id_2_idx_map[key])) = key

\* two live facts have one key, and the map names the one declared last
C16_Witness ==
    /\ Len(odict) = 2
    /\ \E key \in DOMAIN fact_id_2_idx_map :
         /\ Count(reference_counter, key) = 2
         /\ fact_id_2_idx_map[key] = 1

Content(fact) == { <<k, Get(fact, k)>> : k \in { k \in Keys(fact) : ~is_special(k) } }

\* the same class and the same non-special items
SameTypeAndContent(f, g) == heap[f].cls = heap[g].cls /\ Content(f) = Content(g)

\* C18: the key of a fact without level and id depends only on its class and
\* on the set of its non-special items.  With duplication off, declare of
\* such a valid fact returns None and changes nothing if a live fact has the
\* same class and non-special items (whatever the special items and the
\* order of the items), and stores the fact otherwise, so two facts of
\* different classes with the same items are both stored (stated for the
\* callers that keep declare's contract).
C18_ContentKey ==
    [][ \A fact \in Objs :
          ( /\ Called("declare") /\ result'.arg = fact
            /\ InContract
            /\ ~duplication
            /\ IsFact(fact) /\ Validate(fact) /\ ~HasLevelAndId(fact) )
          => IF \E j \in DOMAIN odict : SameTypeAndContent(odict[j][2], fact)
             THEN /\ result'.out = "return" /\ result'.val = None
                  /\ UNCHANGED <<store, factid>>
             ELSE /\ result'.out = "return" /\ result'.val = fact
                  /\ odict' = Append(odict, <<last_index, fact>>) ]_vars

\* C19: two facts with level and id have equal keys only if their levels are
\* equal and their ids are equal: with duplication off, declare of a valid
\* fact with level and id leaves every live fact in the store whose level or
\* id differs from its own, also when the values are strings with '_' or
\* print alike (stated for the callers that keep declare's contract).
C19_OtherVersionsStay ==
    [][ \A fact \in Objs :
          ( /\ Called("declare") /\ result'.arg = fact
            /\ InContract
            /\ ~duplication
            /\ IsFact(fact) /\ Validate(fact) /\ HasLevelAndId(fact) )
          => \A j \in DOMAIN odict :
                ( HasLevelAndId(odict[j][2]) /\ ~SameLevelAndId(odict[j][2], fact) )
                => /\ _get_fact_id(odict[j][2]) # _get_fact_id(fact)
                   /\ Contains(odict', odict[j][1])
                   /\ Lookup(odict', odict[j][1]) = odict[j][2] ]_vars

=============================================================================
